---- MODULE Spec2Model ----
(***************************************************************************)
(* scripts/load_to_postgres.py: one run of the loader reads a CSV, coerces *)
(* its numeric columns, and inside one transaction upserts the banks,      *)
(* reads the banks back into a name -> id map, attaches a bank_id to every *)
(* review and inserts the reviews in chunks with ON CONFLICT DO NOTHING.   *)
(* One action is one statement of the script (a conn.execute, or the       *)
(* pandas coercion) together with the local computation that follows it.   *)
(***************************************************************************)
EXTENDS Integers, Sequences, FiniteSets, TLC

(* ------------------------------ bounds -------------------------------- *)
MaxRows == 3          \* longest CSV drawn in Init
MaxRuns == 2          \* SpecTwice starts the loader at most this many times
MaxBatches == 2       \* InitBulk draws CSVs of up to MaxBatches full chunks + 1
MaxCoerceRows == 2    \* longest CSV drawn in InitCoerce

(* ------------------------------ values -------------------------------- *)
\* the missing value of a column read by pd.read_csv(dtype=str)
NaN == "NaN"
\* SQL NULL, read back by the driver as None
NULL == "NULL"
\* a nullable number is <<>> (NaN, pd.NA, None, NULL) or <<v>>
NA == <<>>

chunk_size == 1000

Codes == {NaN, "X"}
Names == {NaN, "A", "B"}
ReviewIds == {1, 2}
Fields == {"rating", "thumbs_up", "text_length", "review_year", "review_month"}
\* cell texts of a numeric column: missing, not a number, an integer, two decimals
RawVals == {NaN, "abc", "5", "4.0", "4.5"}

Min(S) == CHOOSE x \in S : \A y \in S : x <= y

isna(v) == v = NaN

\* a bound parameter: a pandas missing value is sent as NULL
ToSql(v) == IF isna(v) THEN NULL ELSE v

\* SQL '=' in a WHERE clause or a unique index: never true of a NULL
SqlEq(a, b) == a # NULL /\ b # NULL /\ a = b

(* --------------------------- type coercion ---------------------------- *)
\* the numbers the cell texts parse to, in tenths
NumericText == ("5" :> 50) @@ ("4.0" :> 40) @@ ("4.5" :> 45)

\* pd.to_numeric(errors='coerce') of one cell
to_numeric(s) == IF s \in DOMAIN NumericText THEN <<NumericText[s]>> ELSE NA

\* .astype('Int64') raises when a value of the column is not a whole number
astype_Int64_raises(rows, f) ==
    \E x \in DOMAIN rows : to_numeric(rows[x][f]) # NA /\ to_numeric(rows[x][f])[1] % 10 # 0

astype_Int64(v) == IF v = NA THEN NA ELSE <<v[1] \div 10>>

CoerceRaises(rows) == \E f \in Fields : astype_Int64_raises(rows, f)

CoerceRow(r) ==
    [review_id |-> r.review_id, review_text |-> r.review_text,
     bank_code |-> r.bank_code, bank_name |-> r.bank_name,
     rating |-> astype_Int64(to_numeric(r.rating)),
     thumbs_up |-> astype_Int64(to_numeric(r.thumbs_up)),
     text_length |-> astype_Int64(to_numeric(r.text_length)),
     review_year |-> astype_Int64(to_numeric(r.review_year)),
     review_month |-> astype_Int64(to_numeric(r.review_month))]

(* ------------------------------ banks --------------------------------- *)
Pair(r) == <<r.bank_code, r.bank_name>>

\* df[['bank_code','bank_name']].drop_duplicates(): first occurrences, in order
drop_duplicates(rows) ==
    LET first == {x \in DOMAIN rows : \A y \in 1..(x - 1) : Pair(rows[y]) # Pair(rows[x])}
    IN  [m \in 1..Cardinality(first) |->
            Pair(rows[CHOOSE x \in first : Cardinality({y \in first : y < x}) = m - 1])]

Skipped(p) == isna(p[1]) /\ isna(p[2])

\* the next pair at or after k that the loop does not 'continue' over
NextPair(pairs, k) ==
    LET c == {x \in k..Len(pairs) : ~Skipped(pairs[x])}
    IN  IF c = {} THEN Len(pairs) + 1 ELSE Min(c)

\* INSERT INTO banks (bank_code, bank_name) ... ON CONFLICT (bank_code) DO UPDATE
upsert_sql(tbl, id, code, name) ==
    IF \E b \in tbl : SqlEq(b.bank_code, code)
    THEN {IF SqlEq(b.bank_code, code) THEN [b EXCEPT !.bank_name = name] ELSE b : b \in tbl}
    ELSE tbl \cup {[bank_id |-> id, bank_code |-> code, bank_name |-> name]}

\* INSERT INTO banks (bank_name) SELECT :bank_name WHERE NOT EXISTS (...)
fallback_sql(tbl, id, name) ==
    IF \E b \in tbl : SqlEq(b.bank_name, name)
    THEN tbl
    ELSE tbl \cup {[bank_id |-> id, bank_code |-> NULL, bank_name |-> name]}

\* INSERT INTO banks (bank_name) VALUES (:name) RETURNING bank_id
lazy_sql(tbl, id, name) ==
    tbl \cup {[bank_id |-> id, bank_code |-> NULL, bank_name |-> name]}

\* the dicts {r['bank_name']: r['bank_id'] for r in SELECT ...} can be: the
\* SELECT has no ORDER BY, so among rows of one name any can come last
BankMaps(tbl) ==
    LET names == {b.bank_name : b \in tbl}
    IN  {m \in [names -> {b.bank_id : b \in tbl}] :
            \A n \in names : \E b \in tbl : b.bank_name = n /\ b.bank_id = m[n]}

\* the insert is not remembered
CacheNothing(map, name, id) == map

\* bank_map[r['bank_name']] = bank_id
Cache(map, name, id) == (name :> id) @@ map

(* ------------------------------ reviews ------------------------------- *)
\* the dict appended to insert_rows
InsertRow(r, bank_id) ==
    [review_id |-> r.review_id, bank_id |-> bank_id, review_text |-> r.review_text,
     rating |-> r.rating, thumbs_up |-> r.thumbs_up, text_length |-> r.text_length,
     review_year |-> r.review_year, review_month |-> r.review_month]

ReviewIdsOf(tbl) == {r.review_id : r \in tbl}

\* the slice ends one row early
ChunkOneShort(rows, i) ==
    SubSeq(rows, i + 1, IF i + chunk_size - 1 < Len(rows) THEN i + chunk_size - 1 ELSE Len(rows))

\* insert_rows[i:i+chunk_size], i counted from 0
Chunk(rows, i) == SubSeq(rows, i + 1, IF i + chunk_size < Len(rows) THEN i + chunk_size ELSE Len(rows))

\* ON CONFLICT (review_id) DO UPDATE: the last row of a review_id replaces the stored one
insert_reviews_update(tbl, chunk) ==
    LET ids == {chunk[x].review_id : x \in DOMAIN chunk}
    IN  {r \in tbl : r.review_id \notin ids}
          \cup {chunk[x] : x \in {y \in DOMAIN chunk :
                    \A z \in (y + 1)..Len(chunk) : chunk[z].review_id # chunk[y].review_id}}

\* INSERT INTO reviews ... ON CONFLICT (review_id) DO NOTHING, one row after another
insert_reviews(tbl, chunk) ==
    LET old == ReviewIdsOf(tbl)
        ids == {chunk[x].review_id : x \in DOMAIN chunk}
    IN  IF Cardinality(ids) = Len(chunk)
        THEN tbl \cup {chunk[x] : x \in {y \in DOMAIN chunk : chunk[y].review_id \notin old}}
        ELSE tbl \cup {chunk[x] : x \in {y \in DOMAIN chunk :
                          /\ chunk[y].review_id \notin old
                          /\ \A z \in 1..(y - 1) : chunk[z].review_id # chunk[y].review_id}}

(* ------------------------------- state -------------------------------- *)
VARIABLES
    csv,          \* the rows of the CSV file, as texts
    banks,        \* table banks as the connection sees it
    reviews,      \* table reviews as the connection sees it
    bank_id_seq,  \* last value of the bank_id sequence
    banks0,       \* table banks when the run started
    reviews0,     \* table reviews when the run started
    pc,           \* where the script is
    df,           \* the data frame after the type conversions
    banks_df,     \* the distinct (bank_code, bank_name) pairs
    k,            \* position of the bank loop in banks_df
    bank_map,     \* dict bank_name -> bank_id
    j,            \* position of the row loop in df
    insert_rows,  \* list of rows to insert
    i,            \* offset of the chunk loop
    run,          \* number of the current run
    origin,       \* the tables before the first run
    cause,        \* why the keyed upsert raised, when the script is in the except branch
    lazy,         \* the names inserted by the row loop in this run
    batches       \* <<first, last>> positions of the chunks executed in this run

vars == <<csv, banks, reviews, bank_id_seq, banks0, reviews0, pc, df, banks_df, k,
          bank_map, j, insert_rows, i, run, origin, cause, lazy, batches>>

locals == <<df, banks_df, k, bank_map, j, insert_rows, i>>
tables == <<banks, reviews, bank_id_seq>>
ghosts == <<cause, lazy, batches>>
fixed == <<csv, origin>>
runs == <<run, banks0, reviews0>>

(* ------------------------------ inputs -------------------------------- *)
CsvRow(id, code, name, text, nums) ==
    [review_id |-> id, review_text |-> text, bank_code |-> code, bank_name |-> name,
     rating |-> nums["rating"], thumbs_up |-> nums["thumbs_up"],
     text_length |-> nums["text_length"], review_year |-> nums["review_year"],
     review_month |-> nums["review_month"]]

AllFive == [f \in Fields |-> "5"]

StoredReview(id, bank_id) ==
    [review_id |-> id, bank_id |-> bank_id, review_text |-> 0,
     rating |-> <<3>>, thumbs_up |-> NA, text_length |-> <<7>>,
     review_year |-> <<2024>>, review_month |-> <<1>>]

Bank(id, code, name) == [bank_id |-> id, bank_code |-> code, bank_name |-> name]

\* stores left by earlier loads
Stores ==
    { [banks |-> {}, reviews |-> {}, seq |-> 0],
      [banks |-> {Bank(1, "X", "A")}, reviews |-> {StoredReview(1, 1)}, seq |-> 1],
      [banks |-> {Bank(1, NULL, "A")}, reviews |-> {}, seq |-> 1],
      [banks |-> {Bank(1, "X", "B"), Bank(2, NULL, "A")}, reviews |-> {StoredReview(2, 2)}, seq |-> 2] }

\* review_id columns: the same id on every row, or two ids in turn
ReviewIdColumns ==
    { [x \in 1..(MaxRows + MaxCoerceRows) |-> 1],
      [x \in 1..(MaxRows + MaxCoerceRows) |-> 1 + ((x + 1) % 2)],
      [x \in 1..(MaxRows + MaxCoerceRows) |-> 1 + (x % 2)] }

InitWith(rows, s) ==
    /\ csv = rows
    /\ banks = s.banks /\ reviews = s.reviews /\ bank_id_seq = s.seq
    /\ banks0 = s.banks /\ reviews0 = s.reviews
    /\ origin = [banks |-> s.banks, reviews |-> s.reviews]
    /\ pc = "start"
    /\ df = <<>> /\ banks_df = <<>> /\ k = 1 /\ bank_map = <<>> /\ j = 1
    /\ insert_rows = <<>> /\ i = 0
    /\ run = 1
    /\ cause = "none" /\ lazy = <<>> /\ batches = <<>>

\* short CSVs over every bank_code, bank_name and review_id; the text of a row is its position
Init ==
    \E n \in 0..MaxRows : \E s \in Stores : \E ids \in ReviewIdColumns :
    \E codes \in [1..n -> Codes], names \in [1..n -> Names] :
        InitWith([x \in 1..n |-> CsvRow(ids[x], codes[x], names[x], x, AllFive)], s)

\* the same CSVs, loaded into an empty store
InitTwice ==
    \E n \in 0..MaxRows : \E ids \in ReviewIdColumns :
    \E codes \in [1..n -> Codes], names \in [1..n -> Names] :
        InitWith([x \in 1..n |-> CsvRow(ids[x], codes[x], names[x], x, AllFive)],
                 [banks |-> {}, reviews |-> {}, seq |-> 0])

\* the lengths around the chunk boundaries
BulkLens ==
    {0, 1} \cup {b * chunk_size + d : b \in 1..MaxBatches, d \in {-1, 0, 1}}

\* the banks of the first rows of a long CSV; every later row is of bank ("X", "A")
BulkHeads ==
    { <<>>, << <<NaN, "B">> >>, << <<"X", "B">> >> }

BulkStores == {s \in Stores : s.seq <= 1 /\ (s.banks = {} \/ s.reviews # {})}

\* long CSVs, every row with a review_id of its own
InitBulk ==
    \E n \in BulkLens : \E s \in BulkStores : \E head \in BulkHeads :
        InitWith([x \in 1..n |->
                    CsvRow(x, IF x <= Len(head) THEN head[x][1] ELSE "X",
                              IF x <= Len(head) THEN head[x][2] ELSE "A", x, AllFive)], s)

\* the banks of the rows of the CSVs of InitCoerce
CoerceBanks == << <<NaN, "A">>, <<"X", NaN>>, <<"X", "B">> >>

\* short CSVs, every row with one cell text in one numeric column
InitCoerce ==
    \E n \in 1..MaxCoerceRows : \E s \in Stores :
    \E fs \in [1..n -> Fields], vs \in [1..n -> RawVals] :
        InitWith([x \in 1..n |->
                    CsvRow(x, CoerceBanks[1 + ((x - 1) % 3)][1], CoerceBanks[1 + ((x - 1) % 3)][2], x,
                           [AllFive EXCEPT ![fs[x]] = vs[x]])], s)

(* ------------------------------ actions ------------------------------- *)
\* the chunks already executed stay
RollbackBanksOnly ==
    /\ banks' = banks0
    /\ UNCHANGED reviews
    /\ UNCHANGED bank_id_seq

\* line 60: engine.begin() rolls the transaction back when the block raises
Rollback ==
    /\ banks' = banks0
    /\ reviews' = reviews0
    /\ UNCHANGED bank_id_seq

\* lines 50-55: the conversions of the numeric columns, before the transaction
Coerce ==
    /\ pc = "start"
    /\ IF CoerceRaises(csv)
       THEN pc' = "crashed" /\ UNCHANGED df
       ELSE pc' = "schema" /\ df' = [x \in DOMAIN csv |-> CoerceRow(csv[x])]
    /\ UNCHANGED <<banks_df, k, bank_map, j, insert_rows, i>>
    /\ UNCHANGED <<tables, ghosts, fixed, runs>>

\* lines 60-65: begin, the schema script, and the distinct pairs
Schema ==
    /\ pc = "schema"
    /\ banks_df' = drop_duplicates(df)
    /\ k' = NextPair(banks_df', 1)
    /\ pc' = IF k' > Len(banks_df') THEN "readback" ELSE "banks"
    /\ UNCHANGED <<df, bank_map, j, insert_rows, i>>
    /\ UNCHANGED <<tables, ghosts, fixed, runs>>

\* line 81: the keyed upsert of pair k succeeds
BankUpsert ==
    /\ pc = "banks"
    /\ banks' = upsert_sql(banks, bank_id_seq + 1, ToSql(banks_df[k][1]), ToSql(banks_df[k][2]))
    /\ bank_id_seq' = IF Cardinality(banks') = Cardinality(banks) THEN bank_id_seq ELSE bank_id_seq + 1
    /\ k' = NextPair(banks_df, k + 1)
    /\ pc' = IF k' > Len(banks_df) THEN "readback" ELSE "banks"
    /\ UNCHANGED <<df, banks_df, bank_map, j, insert_rows, i>>
    /\ UNCHANGED <<reviews, ghosts, fixed, runs>>

\* lines 82-93: the keyed upsert of pair k raises, for the null key or for another reason
UpsertExcept ==
    /\ pc = "banks"
    /\ \E why \in {"null_key", "other"} :
        /\ why = "null_key" => isna(banks_df[k][1])
        /\ IF isna(banks_df[k][1])
           THEN /\ pc' = "fallback"
                /\ cause' = why
                /\ UNCHANGED tables
           ELSE /\ pc' = "failed"
                /\ cause' = "none"
                /\ Rollback
    /\ UNCHANGED <<locals, lazy, batches, fixed, runs>>

\* lines 86-91: the insert by name of the except branch succeeds
Fallback ==
    /\ pc = "fallback"
    /\ banks' = fallback_sql(banks, bank_id_seq + 1, ToSql(banks_df[k][2]))
    /\ bank_id_seq' = IF banks' = banks THEN bank_id_seq ELSE bank_id_seq + 1
    /\ k' = NextPair(banks_df, k + 1)
    /\ pc' = IF k' > Len(banks_df) THEN "readback" ELSE "banks"
    /\ cause' = "none"
    /\ UNCHANGED <<df, banks_df, bank_map, j, insert_rows, i>>
    /\ UNCHANGED <<reviews, lazy, batches, fixed, runs>>

\* line 96: the read-back of banks into bank_map
ReadBack ==
    /\ pc = "readback"
    /\ bank_map' \in BankMaps(banks)
    /\ pc' = IF Len(df) = 0 THEN "commit" ELSE "rows"
    /\ UNCHANGED <<df, banks_df, k, j, insert_rows, i>>
    /\ UNCHANGED <<tables, ghosts, fixed, runs>>

\* lines 100-122, for the rows from j on whose bank_name is in bank_map
TransformRows ==
    /\ pc = "rows"
    /\ df[j].bank_name \in DOMAIN bank_map
    /\ LET missing == {x \in j..Len(df) : df[x].bank_name \notin DOMAIN bank_map}
           last == IF missing = {} THEN Len(df) ELSE Min(missing) - 1
       IN  /\ insert_rows' = insert_rows \o
                  [x \in 1..(last - j + 1) |-> InsertRow(df[j + x - 1], bank_map[df[j + x - 1].bank_name])]
           /\ j' = last + 1
           /\ pc' = IF last = Len(df) THEN "chunks" ELSE "rows"
    /\ UNCHANGED <<df, banks_df, k, bank_map, i>>
    /\ UNCHANGED <<tables, ghosts, fixed, runs>>

\* lines 100-122, for a row whose bank_name is not in bank_map: the lazy insert succeeds
LazyInsert ==
    /\ pc = "rows"
    /\ df[j].bank_name \notin DOMAIN bank_map
    /\ banks' = lazy_sql(banks, bank_id_seq + 1, ToSql(df[j].bank_name))
    /\ bank_id_seq' = bank_id_seq + 1
    /\ bank_map' = Cache(bank_map, df[j].bank_name, bank_id_seq + 1)
    /\ insert_rows' = Append(insert_rows, InsertRow(df[j], bank_id_seq + 1))
    /\ lazy' = Append(lazy, df[j].bank_name)
    /\ j' = j + 1
    /\ pc' = IF j = Len(df) THEN "chunks" ELSE "rows"
    /\ UNCHANGED <<df, banks_df, k, i>>
    /\ UNCHANGED <<reviews, cause, batches, fixed, runs>>

\* lines 126-140: one chunk is inserted
InsertChunk ==
    /\ pc = "chunks"
    /\ reviews' = insert_reviews(reviews, Chunk(insert_rows, i))
    /\ batches' = Append(batches, <<i + 1, i + Len(Chunk(insert_rows, i))>>)
    /\ i' = i + chunk_size
    /\ pc' = IF i' < Len(insert_rows) THEN "chunks" ELSE "commit"
    /\ UNCHANGED <<df, banks_df, k, bank_map, j, insert_rows>>
    /\ UNCHANGED <<banks, bank_id_seq, cause, lazy, fixed, runs>>

\* line 60: the with block is left normally and the transaction commits
Commit ==
    /\ pc = "commit"
    /\ pc' = "done"
    /\ UNCHANGED <<locals, tables, ghosts, fixed, runs>>

\* line 60: a statement raises, the exception leaves the with block, the transaction rolls back
Raise ==
    /\ pc \in {"schema", "fallback", "readback", "chunks"}
          \/ (pc = "rows" /\ df[j].bank_name \notin DOMAIN bank_map)
    /\ pc' = "failed"
    /\ Rollback
    /\ cause' = "none"
    /\ UNCHANGED <<locals, lazy, batches, fixed, runs>>

\* the loader is started again on the same CSV, after a run that committed
Rerun ==
    /\ pc = "done"
    /\ run < MaxRuns
    /\ run' = run + 1
    /\ banks0' = banks /\ reviews0' = reviews
    /\ pc' = "start"
    /\ df' = <<>> /\ banks_df' = <<>> /\ k' = 1 /\ bank_map' = <<>> /\ j' = 1
    /\ insert_rows' = <<>> /\ i' = 0
    /\ cause' = "none" /\ lazy' = <<>> /\ batches' = <<>>
    /\ UNCHANGED <<tables, fixed>>

Next ==
    \/ Coerce
    \/ Schema
    \/ BankUpsert
    \/ UpsertExcept
    \/ Fallback
    \/ ReadBack
    \/ TransformRows
    \/ LazyInsert
    \/ InsertChunk
    \/ Commit
    \/ Raise

\* one run of the loader
Spec == Init /\ [][Next]_vars

\* the loader is run up to MaxRuns times on one CSV, from an empty store
NextTwice ==
    \/ Next
    \/ Rerun

SpecTwice == InitTwice /\ [][NextTwice]_vars

SpecBulk == InitBulk /\ [][Next]_vars

SpecCoerce == InitCoerce /\ [][Next]_vars

(* ------------------------------ claims -------------------------------- *)
Committed == pc = "done"

\* C1: a run in which a statement of the transaction raised leaves banks and
\* reviews equal to what they were when the run started, whatever the run
\* had already written.
AllOrNothing ==
    pc = "failed" => banks = banks0 /\ reviews = reviews0

\* a run failed after it had inserted a bank and a first batch of reviews
AllOrNothingWitness ==
    /\ pc = "failed"
    /\ Len(batches) >= 1
    /\ Len(lazy) >= 1
    /\ batches[Len(batches)][2] < Len(insert_rows)

\* C2: from an empty store, a second run on the same CSV leaves as many
\* banks and as many reviews as the first run did.
IdempotentCounts ==
    (Committed /\ run = 2 /\ origin.banks = {} /\ origin.reviews = {})
        => /\ Cardinality(banks) = Cardinality(banks0)
           /\ Cardinality(reviews) = Cardinality(reviews0)

Max(S) == CHOOSE x \in S : \A y \in S : y <= x

RowsOfCode(c) == {x \in DOMAIN csv : csv[x].bank_code = c}

\* C3: after a run that committed, a bank_code the CSV carries with several
\* names has one banks row, named as the last CSV row of that code.
LastNameWins ==
    Committed =>
        \A c \in Codes \ {NaN} :
            Cardinality({csv[x].bank_name : x \in RowsOfCode(c)}) > 1 =>
                /\ Cardinality({b \in banks : b.bank_code = c}) = 1
                /\ \A b \in banks : b.bank_code = c =>
                       b.bank_name = ToSql(csv[Max(RowsOfCode(c))].bank_name)

BankIdsOf(tbl) == {b.bank_id : b \in tbl}

\* C4: for a name the CSV carries only on rows without bank_code, a run
\* creates at most one banks row of that name, and none when a row of that
\* name was there before the run, which it leaves as it was.
OneRowPerKeylessName ==
    Committed =>
        \A n \in Names \ {NaN} :
            ((\E x \in DOMAIN csv : csv[x].bank_name = n)
              /\ (\A x \in DOMAIN csv : csv[x].bank_name = n => isna(csv[x].bank_code)))
            => LET created == {b \in banks : b.bank_name = n /\ b.bank_id \notin BankIdsOf(banks0)}
                   before == {b \in banks0 : b.bank_name = n}
               IN  /\ Cardinality(created) <= 1
                   /\ before # {} => (created = {} /\ before \subseteq banks)

\* C5: a review that was stored before the run is the same row after every
\* step of the run, and when the run has committed every review_id of the
\* CSV is stored.
ConflictSkip ==
    /\ \A r \in reviews0 : \A q \in reviews : q.review_id = r.review_id => q = r
    /\ reviews0 \subseteq reviews
    /\ Committed => \A x \in DOMAIN csv : csv[x].review_id \in ReviewIdsOf(reviews)

\* a first run committed a CSV with a review_id that was stored and one that was not
ConflictSkipWitness ==
    /\ Committed /\ run = 1
    /\ \E x, y \in DOMAIN csv :
          /\ csv[x].review_id \in ReviewIdsOf(reviews0)
          /\ csv[y].review_id \notin ReviewIdsOf(reviews0)
          /\ x < y

\* C6: when the chunk loop has ended, the chunks executed are the rows
\* 1..n of the CSV cut in order into pieces of at most chunk_size rows, none
\* empty, and every review_id of the CSV is stored exactly once.
ChunksPartition ==
    pc \in {"commit", "done"} =>
        /\ Len(insert_rows) = Len(csv)
        /\ \A x \in DOMAIN csv : insert_rows[x].review_id = csv[x].review_id
        /\ (Len(csv) = 0) = (batches = <<>>)
        /\ batches # <<>> => batches[1][1] = 1 /\ batches[Len(batches)][2] = Len(csv)
        /\ \A m \in DOMAIN batches :
              /\ batches[m][1] <= batches[m][2]
              /\ batches[m][2] - batches[m][1] + 1 <= chunk_size
              /\ m > 1 => batches[m][1] = batches[m - 1][2] + 1
        /\ ReviewIdsOf(reviews) = ReviewIdsOf(reviews0) \cup {csv[x].review_id : x \in DOMAIN csv}
        /\ Cardinality(reviews) = Cardinality(ReviewIdsOf(reviews))

\* a run committed a full chunk followed by a short one
ChunksPartitionWitness ==
    /\ Committed
    /\ Len(batches) = 2
    /\ batches[1][2] - batches[1][1] + 1 = chunk_size
    /\ batches[2][2] - batches[2][1] + 1 < chunk_size

\* C7: the except branch of the keyed upsert is entered for the null key
\* only; after any other failure the insert by name is not executed.
OnlyNullKeyRecovered ==
    pc = "fallback" => cause = "null_key"

\* C8: once banks is read back, bank_map has the bank_name of every CSV row
\* whose pair the bank loop did not skip.
MapCoversNames ==
    (pc = "rows" /\ lazy = <<>>) =>
        \A x \in DOMAIN df :
            (~Skipped(Pair(df[x])) /\ ~isna(df[x].bank_name)) => df[x].bank_name \in DOMAIN bank_map

\* the text of a numeric cell is missing or not a number
Unparseable(s) == s \notin DOMAIN NumericText

\* C9: no cell text of a numeric column makes the load raise, and a review
\* stored from a row with a missing or non-numeric cell has NULL there.
CoercionNeverFails ==
    /\ pc # "crashed"
    /\ Committed =>
          \A r \in reviews \ reviews0 : \A f \in Fields :
              Unparseable(csv[r.review_text][f]) => r[f] = NA

\* C10: a review inserted by a run that committed has the bank_id of one
\* banks row, whose name is the bank_name of the CSV row the review came
\* from, and the run made one lazy insert per name at most.
ReviewsReferToBanks ==
    /\ Committed =>
          \A r \in reviews \ reviews0 :
              /\ Cardinality({b \in banks : b.bank_id = r.bank_id}) = 1
              /\ \A b \in banks : b.bank_id = r.bank_id =>
                     b.bank_name = ToSql(csv[r.review_text].bank_name)
    /\ \A a, b \in DOMAIN lazy : a # b => lazy[a] # lazy[b]

\* a run committed reviews of two rows of one name that was not in the read-back
ReviewsReferToBanksWitness ==
    /\ Committed
    /\ \E x, y \in DOMAIN csv :
          /\ x < y
          /\ csv[x].bank_name = csv[y].bank_name
          /\ ~isna(csv[x].bank_name)
          /\ csv[x].review_id # csv[y].review_id
          /\ \E a \in DOMAIN lazy : lazy[a] = csv[x].bank_name
          /\ \E r, q \in reviews \ reviews0 :
                 r.review_text = x /\ q.review_text = y /\ r.bank_id = q.bank_id

====
